---- MODULE Spec2Model ----
(***************************************************************************)
(* A model of x_month_export.py: the paginated timeline fetch              *)
(* (fetch_user_posts_for_month), its window filter, the throttle backoff   *)
(* and the caller's final save.                                            *)
(*                                                                         *)
(* Encoding of Python values:                                              *)
(*   - an optional value (None / a missing dictionary key) is <<>>, a      *)
(*     present value v is <<v>>;                                           *)
(*   - a created_at string is the sequence of its numeric fields: the      *)
(*     text "2024-02-01T00:00:00Z" is <<2024, 2, 1, 0, 0, 0>>, the empty   *)
(*     string is <<>>;                                                     *)
(*   - a datetime is <<ordinal day, second of the day>> (UTC);             *)
(*   - a pagination token is a string, "" being the empty token;           *)
(*   - a header text is the sequence of its characters, each a string: the *)
(*     character itself, or its Python escape for the three white-space    *)
(*     characters TLA+ has no escape for: \x0b, \x85 and \xa0;             *)
(*   - the member result_count of a page's meta is None when the key is    *)
(*     missing and Some(v) when it is there, v being None for a JSON null  *)
(*     and Some(n) for the number n.                                       *)
(***************************************************************************)
EXTENDS Integers, Sequences, FiniteSets, TLC

\* ------------------------------------------------------------------ bounds
\* The most posts the mock timeline serves during one fetch.
MaxPosts == 3
\* The most throttled answers (429/503) in a row to one request.
MaxBackoffs == 2

\* --------------------------------------------------------- python helpers
None == <<>>
Some(v) == <<v>>

\* bool(x) of an optional string: None and "" are falsy.
Truthy(opt) == opt # None /\ opt[1] # ""

\* bool(x) of an optional created_at (a sequence of fields): None and "" are falsy.
TruthyTs(opt) == opt # None /\ opt[1] # <<>>

\* ------------------------------------------------------------- datetimes
IsLeap(y) == (y % 4 = 0 /\ y % 100 # 0) \/ y % 400 = 0

\* calendar.monthrange(y, m)[1]
DaysInMonth(y, m) ==
    IF m = 2 THEN (IF IsLeap(y) THEN 29 ELSE 28)
    ELSE IF m \in {4, 6, 9, 11} THEN 30 ELSE 31

RECURSIVE DaysBeforeMonth(_, _)
DaysBeforeMonth(y, m) ==
    IF m <= 1 THEN 0 ELSE DaysBeforeMonth(y, m - 1) + DaysInMonth(y, m - 1)

DaysBeforeYear(y) ==
    LET p == y - 1 IN p * 365 + (p \div 4) - (p \div 100) + (p \div 400)

\* datetime(y, m, d, h, mi, s, tzinfo=utc) as <<ordinal day, second of day>>
DateTime(y, m, d, h, mi, s) ==
    << DaysBeforeYear(y) + DaysBeforeMonth(y, m) + d, h * 3600 + mi * 60 + s >>

\* a < b on datetimes
DtLess(a, b) == a[1] < b[1] \/ (a[1] = b[1] /\ a[2] < b[2])

ValidFields(f) ==
    /\ Len(f) = 6
    /\ f[1] \in 1..9999
    /\ f[2] \in 1..12
    /\ f[3] >= 1 /\ f[3] <= DaysInMonth(f[1], f[2])
    /\ f[4] \in 0..23
    /\ f[5] \in 0..59
    /\ f[6] \in 0..59

\* datetime.fromisoformat(ts.replace("Z", "+00:00")): Some(datetime), or None
\* when it raises ValueError.
FromIso(ts) ==
    IF ValidFields(ts)
    THEN Some(DateTime(ts[1], ts[2], ts[3], ts[4], ts[5], ts[6]))
    ELSE None


\* --------------------------------------------------------------- backoff
Digits == <<"0", "1", "2", "3", "4", "5", "6", "7", "8", "9">>
IsDigit(c) == \E i \in 1..10 : Digits[i] = c
DigitVal(c) == (CHOOSE i \in 1..10 : Digits[i] = c) - 1
\* The characters int() strips from both ends of a text: the white space of
\* Latin-1, the character set of a header.
WhiteSpace == {" ", "\t", "\n", "\r", "\f", "\\x0b", "\\x85", "\\xa0"}
IsSpace(c) == c \in WhiteSpace

\* The most digits int() reads from a text (sys.get_int_max_str_digits());
\* with more it raises ValueError.
MaxStrDigits == 4300

RECURSIVE LStrip(_)
LStrip(cs) == IF cs # <<>> /\ IsSpace(Head(cs)) THEN LStrip(Tail(cs)) ELSE cs
RECURSIVE RStrip(_)
RStrip(cs) ==
    IF cs # <<>> /\ IsSpace(cs[Len(cs)]) THEN RStrip(SubSeq(cs, 1, Len(cs) - 1)) ELSE cs

RECURSIVE DigitsValue(_)
DigitsValue(cs) ==
    IF cs = <<>> THEN 0 ELSE DigitsValue(SubSeq(cs, 1, Len(cs) - 1)) * 10 + DigitVal(cs[Len(cs)])

\* The literal int(text) reads from a header text given as its sequence of
\* characters: Some of its sign and digits, or None when int() raises
\* ValueError.  Surrounding white space, one sign and single underscores
\* between digits are accepted, as int() accepts them, and no more than
\* MaxStrDigits digits, leading zeros counted.
IntBody(cs) ==
    LET t    == RStrip(LStrip(cs))
        neg  == t # <<>> /\ Head(t) = "-"
        body == IF t # <<>> /\ Head(t) \in {"-", "+"} THEN Tail(t) ELSE t
    IN  IF /\ body # <<>>
           /\ \A i \in 1..Len(body) :
                 \/ IsDigit(body[i])
                 \/ /\ body[i] = "_"
                    /\ 1 < i /\ i < Len(body)
                    /\ IsDigit(body[i - 1]) /\ IsDigit(body[i + 1])
           /\ Len(SelectSeq(body, IsDigit)) <= MaxStrDigits
        THEN Some([neg |-> neg, digits |-> SelectSeq(body, IsDigit)])
        ELSE None

\* int(text): Some(n), or None when int() raises ValueError.
ParseInt(cs) ==
    LET b == IntBody(cs)
    IN  IF b = None THEN None
        ELSE Some(IF b[1].neg THEN 0 - DigitsValue(b[1].digits)
                  ELSE DigitsValue(b[1].digits))

\* The digits of the smallest number of seconds time.sleep refuses with
\* OverflowError, whatever the sign: 9223372037, the first whole number of
\* seconds that does not fit in 63 bits of nanoseconds.
SleepLimitDigits == <<"9", "2", "2", "3", "3", "7", "2", "0", "3", "7">>

RECURSIVE StripZeros(_)
StripZeros(ds) == IF ds # <<>> /\ Head(ds) = "0" THEN StripZeros(Tail(ds)) ELSE ds

RECURSIVE DigitsLess(_, _)
\* a < b on digit sequences of the same length
DigitsLess(a, b) ==
    /\ a # <<>>
    /\ \/ DigitVal(Head(a)) < DigitVal(Head(b))
       \/ Head(a) = Head(b) /\ DigitsLess(Tail(a), Tail(b))

\* backoff_sleep(resp, default_sec) raises: int() reads a number too large
\* for time.sleep, whose OverflowError "except ValueError" does not catch.
SleepOverflows(retry_after) ==
    /\ retry_after # None
    /\ retry_after[1] # <<>>
    /\ IntBody(retry_after[1]) # None
    /\ LET sig == StripZeros(IntBody(retry_after[1])[1].digits)
       IN  \/ Len(sig) > Len(SleepLimitDigits)
           \/ Len(sig) = Len(SleepLimitDigits) /\ ~DigitsLess(sig, SleepLimitDigits)

\* A header of twenty digits: 99999999999999999999.
LongHeader == [i \in 1..(2 * Len(SleepLimitDigits)) |-> "9"]

\* 2^63 - 1 nanoseconds, the largest time CPython holds, as seconds (their
\* digits above the last five, and the last five) and nanoseconds:
\* 9223372036.854775807 s.
TimeMax == << 92233, 72036, 854775807 >>

\* time.sleep(n) raises OSError: n is a number of seconds time.sleep takes,
\* but the deadline, the reading clock of time.monotonic() (seconds and
\* nanoseconds) plus n, is past TimeMax, and the system call refuses it.
SleepPastTimeMax(retry_after, clock) ==
    /\ retry_after # None
    /\ retry_after[1] # <<>>
    /\ IntBody(retry_after[1]) # None
    /\ ~SleepOverflows(retry_after)
    /\ ~IntBody(retry_after[1])[1].neg
    /\ LET sig == StripZeros(IntBody(retry_after[1])[1].digits)
           k   == Len(sig)
           hi  == IF k > 5 THEN DigitsValue(SubSeq(sig, 1, k - 5)) ELSE 0
           lo  == IF k > 5 THEN DigitsValue(SubSeq(sig, k - 4, k)) ELSE DigitsValue(sig)
           sum == lo + clock[1]
           h   == hi + (sum \div 100000)
           l   == sum % 100000
       IN  \/ h > TimeMax[1]
           \/ h = TimeMax[1] /\ l > TimeMax[2]
           \/ h = TimeMax[1] /\ l = TimeMax[2] /\ clock[2] > TimeMax[3]

\* The exception that leaves backoff_sleep(resp, default_sec), "" when it
\* returns: "except ValueError" catches neither of the two.
SleepRaises(retry_after, clock) ==
    IF SleepOverflows(retry_after) THEN "OverflowError"
    ELSE IF SleepPastTimeMax(retry_after, clock) THEN "OSError"
    ELSE ""

\* backoff_sleep(resp, default_sec) when it does not raise: the seconds slept.
\* retry_after is the optional header text.  time.sleep(n) raises ValueError
\* for n < 0, which the same except clause catches.
backoff_sleep(retry_after, default_sec) ==
    IF retry_after # None /\ retry_after[1] # <<>>
    THEN LET n == ParseInt(retry_after[1])
         IN  IF n # None /\ n[1] >= 0 THEN n[1] ELSE default_sec
    ELSE default_sec

\* default_sec=60 at both call sites
DefaultSec == 60

\* ------------------------------------------------------ the timeline fetch
VARIABLES
    pc,                     \* where the program is: "start" (main before the
                            \* month's bounds), "makedirs" (before os.makedirs),
                            \* "main" (before the for loop), "loop" (top of the while
                            \* loop), "returned" (the fetch returned to main),
                            \* "saved" (main wrote the final file), "raised" (an
                            \* exception left the fetch and ended main)
    exc,                    \* the exception that propagated, "" when none
    username, user_id,      \* main's username and the resolved id
    start_time_iso, end_time_iso, max_results, incremental_save_path,
    window_start_dt, window_end_dt,     \* the window bounds, parsed once
    params_token,           \* params.get("pagination_token") of the last request
    all_posts, next_token, seen_tokens, page_idx,
    status,                 \* r.status_code of the last answer, 0 before any
    payload,                \* the last decoded 200 body: data, meta, includes
    stop,                   \* the [STOP]/[ERROR] line printed, "" when none
    snapshot,               \* content of the incremental-save file
    sleeps,                 \* the seconds slept by each backoff since the last
                            \* answer that was not a throttle, in order
    result,                 \* the list fetch_user_posts_for_month returned
    final_file,             \* content of main's final JSON document
    received,               \* history: data and meta of every decoded 200 page
    ok_tokens,              \* history: params_token of every request answered
                            \* 200, whether or not its body could be decoded
    \* main and the functions it calls before the fetch
    month_arg,              \* << year, month >> of --month
    per_page,               \* args.per_page
    usernames,              \* args.usernames
    idx,                    \* how many usernames the for loop has taken
    uid,                    \* what fetch_user_id returned last, None before
    lookups,                \* the GETs of the current fetch_user_id call, in
                            \* order: handle, status of the answer (0 when
                            \* the GET raised), body of a 200 answer, seconds
                            \* slept after it
    resp_retry_after,       \* the retry-after header of the last answer when
                            \* it was handed to backoff_sleep (None when it
                            \* has none), None after any other answer
    monotonic,              \* the reading of time.monotonic(), << seconds,
                            \* nanoseconds >>, taken as standing still: the
                            \* runs are short against the readings that matter
    done_log                \* history: for every username main is through
                            \* with, its id and the count it saved (None when
                            \* it wrote no file)

vars == << pc, exc, username, user_id, start_time_iso, end_time_iso, max_results,
           incremental_save_path, window_start_dt, window_end_dt, params_token, all_posts, next_token,
           seen_tokens, page_idx, status, payload, stop, snapshot, sleeps,
           result, final_file, received, ok_tokens,
           month_arg, per_page, usernames, idx, uid, lookups, resp_retry_after,
           monotonic, done_log >>

\* main's own variables, which a fetch does not touch
outer == << month_arg, per_page, usernames, idx, uid, lookups, monotonic >>

args == << username, user_id, start_time_iso, end_time_iso, max_results,
           incremental_save_path, window_start_dt, window_end_dt >>

\* Mutant of ResultCount: a missing count reads as 1.
ResultCount_missing_is_one(meta) ==
    IF meta.result_count = None THEN Some(1) ELSE meta.result_count[1]

\* meta.get("result_count", 0): the default stands in for a missing key only,
\* a JSON null comes back as None.
ResultCount(meta) ==
    IF meta.result_count = None THEN Some(0) ELSE meta.result_count[1]
\* meta.get("next_token")
NewToken(meta) == meta.next_token

\* Mutant of Extend: the page replaces the accumulation.
Extend_replace(all, posts) == posts

\* all_posts.extend(posts)
Extend(all, posts) == all \o posts

\* Mutant of StopEmpty: the declared count is not consulted.
StopEmpty_data_only(posts, result_count) == posts = <<>>

\* 1) "if not posts or result_count == 0"
StopEmpty(posts, result_count) == posts = <<>> \/ result_count = Some(0)

\* Mutant of StopShort: off by one.
StopShort_off_by_one(got, max) == got < max - 1

\* 2) "if got < params['max_results']"
StopShort(got, max) == got < max

\* The created_at texts the generator of min() parses: those that are truthy.
PageStamps(posts) ==
    LET with == SelectSeq(posts, LAMBDA p : TruthyTs(p.created_at))
    IN  [k \in 1..Len(with) |-> with[k].created_at[1]]

\* Mutant of MinDt: the newest instead of the oldest.
MinDt_newest(dts) ==
    CHOOSE d \in {dts[i] : i \in 1..Len(dts)} :
        \A j \in 1..Len(dts) : ~DtLess(d, dts[j])

\* min(..., default=None) of a non-empty sequence of datetimes
MinDt(dts) ==
    CHOOSE d \in {dts[i] : i \in 1..Len(dts)} :
        \A j \in 1..Len(dts) : ~DtLess(dts[j], d)

\* 3) the try block: TRUE when it breaks.  A created_at that does not parse
\* raises inside min(), and the except clause skips the condition.
StopPastWindow(posts, start_dt) ==
    LET stamps == PageStamps(posts)
        parsed == [k \in 1..Len(stamps) |-> FromIso(stamps[k])]
    IN  IF \E k \in 1..Len(parsed) : parsed[k] = None THEN FALSE
        ELSE IF parsed = <<>> THEN FALSE
        ELSE DtLess(MinDt([k \in 1..Len(parsed) |-> parsed[k][1]]), start_dt)

\* 4) "if new_token is None"
StopNoToken(new_token) == new_token = None
\* Mutant of StopRepeated: the seen set is never consulted.
StopRepeated_unchecked(new_token, seen) == FALSE

\* 4) "if new_token in seen_tokens"
StopRepeated(new_token, seen) == new_token[1] \in seen

\* The stop conditions in the order the loop evaluates them: the [STOP] line
\* printed, or "" when the loop goes on to the next page.
StopReason(posts, meta, max, start_dt, seen) ==
    IF StopEmpty(posts, ResultCount(meta)) THEN "empty"
    ELSE IF StopShort(Len(posts), max) THEN "short"
    ELSE IF StopPastWindow(posts, start_dt) THEN "past_window"
    ELSE IF StopNoToken(NewToken(meta)) THEN "no_token"
    ELSE IF StopRepeated(NewToken(meta), seen) THEN "repeated"
    ELSE ""

\* "if next_token: params[...] = next_token  else: params.pop(...)"
RequestToken(tok) == IF Truthy(tok) THEN tok ELSE None

\* Mutant of ProgPayload: count_so_far holds the page number.
ProgPayload_count_is_page(u_id, s, e, page, posts, meta, includes) ==
    [ user_id |-> u_id, start_time |-> s, end_time |-> e, page |-> page,
      count_so_far |-> page, meta |-> meta, includes |-> includes,
      posts_so_far |-> posts ]

\* prog_payload (fetched_at, a clock reading, is left out)
ProgPayload(u_id, s, e, page, posts, meta, includes) ==
    [ user_id |-> u_id, start_time |-> s, end_time |-> e, page |-> page,
      count_so_far |-> Len(posts), meta |-> meta, includes |-> includes,
      posts_so_far |-> posts ]

\* A file whose write failed after open(path, "w") truncated it.
TornFile == [ torn |-> TRUE ]

\* The incremental save of one page.  wr is what the file system does:
\* "ok", "open_fails" (the file is left as it was) or "dump_fails" (the file was
\* truncated and holds a partial document).  The exception is swallowed.
SaveSnapshot(path, old, doc, wr) ==
    IF ~Truthy(path) THEN old
    ELSE IF wr = "ok" THEN Some(doc)
    ELSE IF wr = "dump_fails" THEN Some(TornFile)
    ELSE old

\* Mutant of SaveEscapes: a failed write leaves the try block.
SaveEscapes_on_failure(wr) == wr \in {"open_fails", "dump_fails"}

\* "except Exception" around the incremental save (lines 147-164): TRUE when the
\* failure of a write would propagate out of the try block.  Every failure of
\* open() or json.dump is an Exception, so none does.
SaveEscapes(wr) == FALSE

\* Mutant of in_window: the end of the window is inclusive.
in_window_end_inclusive(p, start_dt, end_dt) ==
    LET ts == p.created_at
    IN  IF ~TruthyTs(ts) THEN "True"
        ELSE LET dt == FromIso(ts[1])
             IN  IF dt = None THEN "ValueError"
                 ELSE IF ~DtLess(dt[1], start_dt) /\ ~DtLess(end_dt, dt[1])
                      THEN "True" ELSE "False"

\* in_window(p): "True", "False", or "ValueError" when fromisoformat raises
in_window(p, start_dt, end_dt) ==
    LET ts == p.created_at
    IN  IF ~TruthyTs(ts) THEN "True"
        ELSE LET dt == FromIso(ts[1])
             IN  IF dt = None THEN "ValueError"
                 ELSE IF ~DtLess(dt[1], start_dt) /\ DtLess(dt[1], end_dt)
                      THEN "True" ELSE "False"

\* [p for p in all_posts if in_window(p)] when no call raises
FilterPosts(posts, start_dt, end_dt) ==
    SelectSeq(posts, LAMBDA p : in_window(p, start_dt, end_dt) = "True")

\* main's final payload; month is args.month, as its year and month
FinalPayload(name, u_id, month, s, e, posts) ==
    [ username |-> name, user_id |-> u_id, month |-> month, start_time |-> s,
      end_time |-> e, count |-> Len(posts), posts |-> posts ]

\* save_json(outpath, payload) (lines 232-234, 287): what the file holds after
\* it.  wr is what the file system does: "ok", "open_fails" (the file is left
\* as it was) or "dump_fails" (the file was truncated).
SaveJson(old, doc, wr) ==
    IF wr = "ok" THEN Some(doc)
    ELSE IF wr = "dump_fails" THEN Some(TornFile)
    ELSE old


\* ------------------------------------------------------- the mock server
\* The month of the run, 2024-02, as main passes it: iso_month_bounds' strings.
StartIso == <<2024, 2, 1, 0, 0, 0>>
EndIso == <<2024, 3, 1, 0, 0, 0>>

\* The created_at values the mock timeline serves: missing, the empty string,
\* a text fromisoformat rejects (30 February), the last second before the
\* window, its first instant and its (exclusive) end.
CreatedAts ==
    { None, Some(<<>>), Some(<<2024, 2, 30, 0, 0, 0>>),
      Some(<<2024, 1, 31, 23, 59, 59>>), Some(StartIso), Some(EndIso) }

\* The page sizes (max_per_request) the fetch is called with.
PageSizes == {1, 2}

\* The pagination tokens the server draws from, the empty token among them.
Tokens == {"", "a"}
TokenChoices == {None} \cup {Some(t) : t \in Tokens}

ThrottleStatuses == {429, 503}
ErrorStatuses == {404, 500}
\* The retry-after headers of throttled answers to the fetch and the lookup:
\* two seconds, and a number time.sleep does not take.
RetryAfters == {Some(<<"2">>), Some(LongHeader)}
\* What the file system does with main's final write: it succeeds, open()
\* fails, or json.dump fails after the file was opened.
FinalWriteOutcomes == {"ok", "open_fails", "dump_fails"}
\* What it does with os.makedirs(args.outdir, exist_ok=True): the directory is
\* there afterwards, or the call raises (the path is a file, or may not be made).
MakeDirsOutcomes == {"ok", "fails"}
\* The reading of the monotonic clock during the runs: a little over two and
\* a half hours since the system started.
Uptime == << 9058, 264259129 >>
\* What the file system does with a page's snapshot write; no write is tried
\* without a path.
WriteOutcomes(path) == IF Truthy(path) THEN {"ok", "open_fails", "dump_fails"} ELSE {"none"}

\* A page of n posts served after `served` posts: ids number the posts in
\* the order the server hands them out.
PageData(served, cs) ==
    [i \in 1..Len(cs) |-> [id |-> served + i, created_at |-> cs[i]]]

\* includes of a page: the side table for that page's posts
Includes(data) == {data[i].id : i \in 1..Len(data)}

\* payload.get("includes", {}) or {}
BodyIncludes(inc) == IF inc = None THEN {} ELSE inc[1]

\* The declared counts of the server's pages: the key missing, 0 and the
\* page size.
CountChoices(max) == {None, Some(Some(0)), Some(Some(max))}

\* The response has gone through backoff_sleep (lines 22-32): the sleep is
\* done, or the exception of time.sleep leaves the caller.
Backoff(header) ==
    LET e == SleepRaises(header, monotonic)
    IN  IF e # ""
        THEN /\ exc' = e
             /\ pc' = "raised"
             /\ UNCHANGED sleeps
        ELSE /\ sleeps' = Append(sleeps, backoff_sleep(header, DefaultSec))
             /\ UNCHANGED << pc, exc >>

\* ---------------------------------------------------------------- actions
\* After the loop's break (lines 222-230): the list comprehension either
\* returns the kept posts to main or lets in_window's ValueError out.
Finish(posts) ==
    IF \E i \in 1..Len(posts) :
          in_window(posts[i], window_start_dt, window_end_dt) = "ValueError"
    THEN /\ exc' = "ValueError"
         /\ pc' = "raised"
         /\ UNCHANGED result
    ELSE /\ result' = Some(FilterPosts(posts, window_start_dt, window_end_dt))
         /\ pc' = "returned"
         /\ UNCHANGED exc

\* One pass of the while loop whose GET is answered 200 with a decodable body
\* (lines 121-210), and, when a stop condition breaks the loop, the rest of the
\* call (lines 222-230).
Page200(data, meta, inc, wr) ==
    LET posts     == data     \* payload.get("data", []) or []
        posts_all == Extend(all_posts, posts)
        includes  == BodyIncludes(inc)
        doc       == ProgPayload(user_id, start_time_iso, end_time_iso,
                                 page_idx + 1, posts_all, meta, includes)
        why       == StopReason(posts, meta, max_results, window_start_dt, seen_tokens)
    IN  /\ pc = "loop"
        /\ params_token' = RequestToken(next_token)
        /\ status' = 200
        /\ payload' = [data |-> data, meta |-> meta, includes |-> includes]
        /\ page_idx' = page_idx + 1
        /\ all_posts' = posts_all
        /\ snapshot' = SaveSnapshot(incremental_save_path, snapshot, doc, wr)
        /\ IF SaveEscapes(wr)
           THEN /\ exc' = "OSError"
                /\ pc' = "raised"
                /\ UNCHANGED << stop, seen_tokens, next_token, result >>
           ELSE /\ stop' = why
                /\ IF why = ""
                   THEN /\ seen_tokens' = seen_tokens \cup {NewToken(meta)[1]}
                        /\ next_token' = NewToken(meta)
                        /\ UNCHANGED << pc, exc, result >>
                   ELSE /\ UNCHANGED << seen_tokens, next_token >>
                        /\ Finish(posts_all)
        /\ received' = Append(received, [data |-> data, meta |-> meta])
        /\ ok_tokens' = Append(ok_tokens, RequestToken(next_token))
        /\ sleeps' = <<>>
        /\ resp_retry_after' = None
        /\ UNCHANGED << args, final_file, outer, done_log >>

\* Mutant of Throttled: the throttled answer is counted as a page.
Throttled_counts_page(st, retry_after) ==
    /\ pc = "loop"
    /\ Len(sleeps) < MaxBackoffs
    /\ params_token' = RequestToken(next_token)
    /\ status' = st
    /\ resp_retry_after' = retry_after
    /\ Backoff(retry_after)
    /\ page_idx' = page_idx + 1
    /\ UNCHANGED << args, all_posts, next_token, seen_tokens,
                    payload, stop, snapshot, result, final_file, received, ok_tokens,
                    outer, done_log >>

\* A pass whose GET is answered 429 or 503 (lines 121-126, 212-217), with the
\* backoff it calls (lines 22-32).  The loop retries without limit; the model
\* follows MaxBackoffs throttled answers in a row.
Throttled(st, retry_after) ==
    /\ pc = "loop"
    /\ Len(sleeps) < MaxBackoffs
    /\ params_token' = RequestToken(next_token)
    /\ status' = st
    /\ resp_retry_after' = retry_after
    /\ Backoff(retry_after)
    /\ UNCHANGED << args, all_posts, next_token, seen_tokens, page_idx,
                    payload, stop, snapshot, result, final_file, received, ok_tokens,
                    outer, done_log >>

\* A pass whose GET is answered with any other status (lines 121-126, 218-220),
\* and the rest of the call after its break (lines 222-230).
ErrorStatus(st) ==
    /\ pc = "loop"
    /\ params_token' = RequestToken(next_token)
    /\ status' = st
    /\ stop' = "error"
    /\ Finish(all_posts)
    /\ sleeps' = <<>>
    /\ resp_retry_after' = None
    /\ UNCHANGED << args, all_posts, next_token, seen_tokens, page_idx,
                    payload, snapshot, final_file, received, ok_tokens,
                    outer, done_log >>

\* requests.get raises (connection error, timeout): nothing catches it (line 126).
TransportError ==
    /\ pc = "loop"
    /\ params_token' = RequestToken(next_token)
    /\ exc' = "RequestException"
    /\ pc' = "raised"
    /\ sleeps' = <<>>
    /\ resp_retry_after' = None
    /\ UNCHANGED << args, all_posts, next_token, seen_tokens, page_idx, status,
                    payload, stop, snapshot, result, final_file, received,
                    ok_tokens, outer, done_log >>

\* A 200 answer whose body is not JSON: r.json() raises (line 129).
DecodeError ==
    /\ pc = "loop"
    /\ params_token' = RequestToken(next_token)
    /\ status' = 200
    /\ exc' = "JSONDecodeError"
    /\ pc' = "raised"
    /\ ok_tokens' = Append(ok_tokens, RequestToken(next_token))
    /\ sleeps' = <<>>
    /\ resp_retry_after' = None
    /\ UNCHANGED << args, all_posts, next_token, seen_tokens, page_idx,
                    payload, stop, snapshot, result, final_file, received,
                    outer, done_log >>

\* main after the fetch returned (lines 277-288): save_json of the final payload.
\* The exception of a failed write is caught nowhere and ends main, as does an
\* exception out of the fetch: "raised" is final.
SaveFinal(wr) ==
    /\ pc = "returned"
    /\ final_file' = SaveJson(final_file,
                              FinalPayload(username, uid[1], month_arg, start_time_iso,
                                           end_time_iso, result[1]),
                              wr)
    /\ IF wr = "ok"
       THEN /\ pc' = "saved"
            /\ done_log' = Append(done_log, [username |-> username, uid |-> uid,
                                             saved |-> Some(Len(result[1]))])
            /\ UNCHANGED exc
       ELSE /\ pc' = "raised"
            /\ exc' = "OSError"
            /\ UNCHANGED done_log
    /\ UNCHANGED << args, params_token, all_posts, next_token, seen_tokens,
                    page_idx, status, payload, stop, snapshot, sleeps, result,
                    received, ok_tokens, outer, resp_retry_after >>

WriteFinal == \E wr \in FinalWriteOutcomes : SaveFinal(wr)

\* ----------------------------------------------------------- specification
\* One call of fetch_user_posts_for_month for the resolved user "alice" and
\* the month 2024-02, with a page size of PageSizes and the incremental save on
\* or off, followed by main's final save.
Init ==
    /\ pc = "loop"
    /\ exc = ""
    /\ username = "alice"
    /\ user_id = "1001"
    /\ start_time_iso = StartIso
    /\ end_time_iso = EndIso
    /\ window_start_dt = FromIso(StartIso)[1]
    /\ window_end_dt = FromIso(EndIso)[1]
    /\ max_results \in PageSizes
    /\ incremental_save_path \in {None, Some("posts_alice_2024-02.partial.json")}
    /\ params_token = None
    /\ all_posts = <<>>
    /\ next_token = None
    /\ seen_tokens = {}
    /\ page_idx = 0
    /\ status = 0
    /\ payload = [data |-> <<>>, meta |-> [result_count |-> None, next_token |-> None],
                  includes |-> {}]
    /\ stop = ""
    /\ snapshot = None
    /\ sleeps = <<>>
    /\ result = None
    /\ final_file = None
    /\ received = <<>>
    /\ ok_tokens = <<>>
    /\ month_arg = <<2024, 2>>
    /\ per_page = max_results
    /\ usernames = <<"alice">>
    /\ idx = 1
    /\ uid = Some("1001")
    /\ lookups = <<>>
    /\ resp_retry_after = None
    /\ monotonic = Uptime
    /\ done_log = <<>>

\* The server's usual pages: posts with any of CreatedAts, a count or none,
\* any cursor, and the side table of the page.
ServePage ==
    \E n \in 0..max_results :
        /\ Len(all_posts) + n <= MaxPosts
        /\ \E cs \in [1..n -> CreatedAts] :
           \E rc \in CountChoices(max_results) :
           \E tok \in TokenChoices :
           \E wr \in WriteOutcomes(incremental_save_path) :
              Page200(PageData(Len(all_posts), cs),
                      [result_count |-> rc, next_token |-> tok],
                      Some(Includes(PageData(Len(all_posts), cs))), wr)

\* Its unusual pages, of posts dated at the start of the window: the count is
\* a JSON null, or the body has no "includes".  The server has them for its
\* first page only.
ServeOddPage ==
    \E n \in 0..max_results :
        /\ received = <<>>
        /\ Len(all_posts) + n <= MaxPosts
        /\ LET data == PageData(Len(all_posts), [i \in 1..n |-> Some(StartIso)])
           IN  \E odd \in { << Some(None), Some(Includes(data)) >>,
                             << Some(Some(max_results)), None >> } :
               \E tok \in TokenChoices :
               \E wr \in WriteOutcomes(incremental_save_path) :
                  Page200(data, [result_count |-> odd[1], next_token |-> tok],
                          odd[2], wr)

\* The server throttles a request with 429, and with 503 when it is asked
\* again, in turn.
ServeThrottle ==
    \E h \in RetryAfters :
        Throttled(IF Len(sleeps) % 2 = 0 THEN 429 ELSE 503, h)

ServeError == \E st \in ErrorStatuses : ErrorStatus(st)

Next ==
    \/ ServePage
    \/ ServeOddPage
    \/ ServeThrottle
    \/ ServeError
    \/ TransportError
    \/ DecodeError
    \/ WriteFinal

Spec == Init /\ [][Next]_vars

\* The same program under a scheduler that lets it run: the process is not
\* suspended, and every request gets an answer or fails.  A throttled request
\* is retried at most MaxBackoffs times in a row before another answer comes.
FairSpec == Init /\ [][Next]_vars /\ WF_vars(Next)


\* ------------------------------------------------ main and what it calls
Min(a, b) == IF a <= b THEN a ELSE b
Max(a, b) == IF a >= b THEN a ELSE b

\* dt + timedelta(seconds=n) on << ordinal day, second of day >>
AddSeconds(dt, n) ==
    LET t == dt[2] + n IN << dt[1] + (t \div 86400), t % 86400 >>

\* The ordinal of the last day a datetime can hold, 9999-12-31.
MaxOrdinal == DaysBeforeYear(10000)

\* The year and the month an ordinal day falls in.
OrdYear(n) ==
    CHOOSE y \in (n \div 366)..(n \div 365 + 1) :
        y >= 1 /\ DaysBeforeYear(y) < n /\ n <= DaysBeforeYear(y + 1)
OrdMonth(y, n) ==
    CHOOSE m \in 1..12 :
        /\ DaysBeforeYear(y) + DaysBeforeMonth(y, m) < n
        /\ n <= DaysBeforeYear(y) + DaysBeforeMonth(y, m) + DaysInMonth(y, m)

\* dt.isoformat().replace("+00:00", "Z"), as the fields of the text
IsoFormat(dt) ==
    LET y == OrdYear(dt[1])
        m == OrdMonth(y, dt[1])
    IN  << y, m, dt[1] - DaysBeforeYear(y) - DaysBeforeMonth(y, m),
           dt[2] \div 3600, (dt[2] % 3600) \div 60, dt[2] % 60 >>

\* Mutant of iso_month_bounds: every month is taken to be 30 days long.
iso_month_bounds_thirty_days(year, month) ==
    LET start == DateTime(year, month, 1, 0, 0, 0)
        end   == AddSeconds(DateTime(year, month, 30, 23, 59, 59), 1)
    IN  IF end[1] > MaxOrdinal
        THEN [raised |-> "OverflowError", start |-> <<>>, end |-> <<>>]
        ELSE [raised |-> "", start |-> IsoFormat(start), end |-> IsoFormat(end)]

\* iso_month_bounds(year, month) for a valid year and month: the two texts, or
\* the OverflowError of the timedelta addition when the end is past
\* datetime.max.
iso_month_bounds(year, month) ==
    LET start    == DateTime(year, month, 1, 0, 0, 0)
        last_day == DaysInMonth(year, month)
        end      == AddSeconds(DateTime(year, month, last_day, 23, 59, 59), 1)
    IN  IF end[1] > MaxOrdinal
        THEN [raised |-> "OverflowError", start |-> <<>>, end |-> <<>>]
        ELSE [raised |-> "", start |-> IsoFormat(start), end |-> IsoFormat(end)]

\* Mutant of MaxPerRequest: the lower limit is 1.
MaxPerRequest_from_one(p) == Min(Max(p, 1), 100)

\* max_per_request=min(max(args.per_page, 10), 100)
MaxPerRequest(p) == Min(Max(p, 10), 100)

\* os.path.join(outdir, f"posts_{username}_{month}.partial.json") for the
\* handles and the month of the run
PartialPath(h) ==
    IF h = "alice" THEN "posts_alice_2024-02.partial.json"
    ELSE "posts_bob_2024-02.partial.json"

\* The id the mock API holds for a handle.
IdOf(h) == IF h = "alice" THEN "1001" ELSE "1002"

\* The "data" member of a lookup body: JSON null, or an object with or
\* without an "id".
JsonNull == [null |-> TRUE, id |-> None]
DataObject(id) == [null |-> FALSE, id |-> id]

\* The bodies a 200 answer to the lookup of h may carry: one that is not JSON,
\* one without "data", and "data" being null, an object without id, with an
\* empty id or with the id of h.
LookupBodies(h) ==
    { [json |-> FALSE, data |-> None] }
    \cup { [json |-> TRUE, data |-> x] :
             x \in { None, Some(JsonNull), Some(DataObject(None)),
                     Some(DataObject(Some(""))), Some(DataObject(Some(IdOf(h)))) } }

\* "data = r.json(); return data.get("data", {}).get("id")": the value
\* returned, or the exception that leaves fetch_user_id.
NestedId(body) ==
    IF ~body.json THEN [raised |-> "JSONDecodeError", value |-> None]
    ELSE IF body.data = None THEN [raised |-> "", value |-> None]
    ELSE IF body.data[1].null THEN [raised |-> "AttributeError", value |-> None]
    ELSE [raised |-> "", value |-> body.data[1].id]

\* Mutant of Resolved: only None counts as unresolved.
Resolved_unless_none(v) == v # None

\* "if not uid: continue"
Resolved(v) == Truthy(v)

\* What a call of fetch_user_posts_for_month sets up (lines 80-118) and what
\* main's call passes (lines 264-275).
fetch_locals ==
    << user_id, max_results, incremental_save_path, window_start_dt,
       window_end_dt, params_token, all_posts, next_token, seen_tokens,
       page_idx, status, payload, stop, snapshot, sleeps, result, final_file,
       received, ok_tokens >>
fetch_locals_but_sleeps ==
    << user_id, max_results, incremental_save_path, window_start_dt,
       window_end_dt, params_token, all_posts, next_token, seen_tokens,
       page_idx, status, payload, stop, snapshot, result, final_file,
       received, ok_tokens >>
cli == << month_arg, per_page, usernames, monotonic >>

\* main is at the head of its for loop with a username left, or inside
\* fetch_user_id's retry of the current one.
AtForHead == pc \in {"main", "skipped", "saved"} /\ idx < Len(usernames)
InLookup == pc = "lookup"
\* The position of the username looked up by the next GET, and the log of the
\* GETs of its fetch_user_id call so far.
IdxNow == IF InLookup THEN idx ELSE idx + 1
LogBase == IF InLookup THEN lookups ELSE <<>>

\* The locals of a fetch as its set-up leaves them (lines 108-118), with the
\* files of the username not yet written.
FreshLocals ==
    /\ params_token' = None
    /\ all_posts' = <<>>
    /\ next_token' = None
    /\ seen_tokens' = {}
    /\ page_idx' = 0
    /\ status' = 0
    /\ payload' = [data |-> <<>>, meta |-> [result_count |-> None, next_token |-> None],
                   includes |-> {}]
    /\ stop' = ""
    /\ snapshot' = None
    /\ sleeps' = <<>>
    /\ result' = None
    /\ final_file' = None
    /\ received' = <<>>
    /\ ok_tokens' = <<>>

\* main's call of the fetch (lines 264-275) and the fetch's set-up (80-118).
StartFetch(h, id) ==
    /\ user_id' = id
    /\ max_results' = MaxPerRequest(per_page)
    /\ incremental_save_path' = Some(PartialPath(h))
    /\ window_start_dt' = FromIso(start_time_iso)[1]
    /\ window_end_dt' = FromIso(end_time_iso)[1]
    /\ FreshLocals

\* No fetch is running: the for loop has taken the next username, and the
\* arguments and locals of the previous username's fetch are gone.
NoFetch ==
    /\ user_id' = ""
    /\ max_results' = 0
    /\ incremental_save_path' = None
    /\ window_start_dt' = <<>>
    /\ window_end_dt' = <<>>
    /\ FreshLocals

\* fetch_user_id returned v to main (lines 257-259): the fetch starts, or the
\* username is skipped.
Resolve(h, v) ==
    /\ uid' = v
    /\ IF Resolved(v)
       THEN /\ pc' = "loop"
            /\ StartFetch(h, v[1])
            /\ UNCHANGED done_log
       ELSE /\ pc' = "skipped"
            /\ done_log' = Append(done_log, [username |-> h, uid |-> v, saved |-> None])
            /\ NoFetch

\* main lines 251-252: the bounds of the month, or the exception.
MonthBounds ==
    /\ pc = "start"
    /\ LET b == iso_month_bounds(month_arg[1], month_arg[2])
       IN  IF b.raised # ""
           THEN /\ exc' = b.raised
                /\ pc' = "raised"
                /\ UNCHANGED << start_time_iso, end_time_iso >>
           ELSE /\ start_time_iso' = b.start
                /\ end_time_iso' = b.end
                /\ pc' = "makedirs"
                /\ UNCHANGED exc
    /\ UNCHANGED << username, fetch_locals, outer, resp_retry_after, done_log >>

\* main line 254: os.makedirs of the output directory; its OSError is caught
\* nowhere and ends main before the first lookup.
MakeDirs(mk) ==
    /\ pc = "makedirs"
    /\ IF mk = "ok"
       THEN pc' = "main" /\ UNCHANGED exc
       ELSE pc' = "raised" /\ exc' = "OSError"
    /\ UNCHANGED << username, start_time_iso, end_time_iso, fetch_locals, outer,
                    resp_retry_after, done_log >>

MakeOutdir == \E mk \in MakeDirsOutcomes : MakeDirs(mk)

\* fetch_user_id's GET answered 429 or 503 (lines 37, 41-43): one backoff
\* (lines 22-32), then the same lookup again, unless the backoff raises.  The
\* recursion retries without limit; the model follows MaxBackoffs throttled
\* answers in a row.
LookupThrottled(st, header) ==
    LET e == SleepRaises(header, monotonic)
    IN  /\ AtForHead \/ InLookup
        /\ Len(LogBase) < MaxBackoffs
        /\ idx' = IdxNow
        /\ username' = usernames[IdxNow]
        /\ lookups' = Append(LogBase,
                             [handle |-> usernames[IdxNow], status |-> st,
                              body |-> None,
                              slept |-> IF e # "" THEN None
                                        ELSE Some(backoff_sleep(header, DefaultSec))])
        /\ resp_retry_after' = header
        /\ IF e # ""
           THEN exc' = e /\ pc' = "raised"
           ELSE pc' = "lookup" /\ UNCHANGED exc
        /\ NoFetch
        /\ UNCHANGED << uid, done_log, cli, start_time_iso, end_time_iso >>

\* fetch_user_id's GET answered 200 (lines 37-40), and main's use of what it
\* returns (lines 257-275).
Lookup200(body) ==
    LET h == usernames[IdxNow]
        r == NestedId(body)
    IN  /\ AtForHead \/ InLookup
        /\ idx' = IdxNow
        /\ username' = h
        /\ lookups' = Append(LogBase, [handle |-> h, status |-> 200,
                                       body |-> Some(body), slept |-> None])
        /\ IF r.raised # ""
           THEN /\ exc' = r.raised
                /\ pc' = "raised"
                /\ NoFetch
                /\ UNCHANGED << uid, done_log >>
           ELSE /\ Resolve(h, r.value)
                /\ UNCHANGED exc
        /\ resp_retry_after' = None
        /\ UNCHANGED << cli, start_time_iso, end_time_iso >>

\* fetch_user_id's GET answered with any other status (lines 37, 44-46): it
\* returns None, and main skips the username.
LookupOther(st) ==
    LET h == usernames[IdxNow]
    IN  /\ AtForHead \/ InLookup
        /\ idx' = IdxNow
        /\ username' = h
        /\ lookups' = Append(LogBase, [handle |-> h, status |-> st, body |-> None,
                                       slept |-> None])
        /\ Resolve(h, None)
        /\ resp_retry_after' = None
        /\ UNCHANGED << exc, cli, start_time_iso, end_time_iso >>

\* requests.get raises inside fetch_user_id (line 37): nothing catches it.
LookupTransportError ==
    /\ AtForHead \/ InLookup
    /\ idx' = IdxNow
    /\ username' = usernames[IdxNow]
    /\ lookups' = Append(LogBase, [handle |-> usernames[IdxNow], status |-> 0,
                                   body |-> None, slept |-> None])
    /\ exc' = "RequestException"
    /\ pc' = "raised"
    /\ NoFetch
    /\ resp_retry_after' = None
    /\ UNCHANGED << uid, done_log, cli, start_time_iso, end_time_iso >>

\* ------------------------------------------------- specification of main
\* main for the month 2024-02 (lines 251-288): the month's bounds, then for
\* each username the lookup, the fetch and the final save.  The usernames of a
\* run are distinct, so that no file of one is met by another.
PerPages == {5, 12, 150}
UsernameLists == { <<"alice">>, <<"alice", "bob">>, <<"bob", "alice">> }

InitMain ==
    /\ pc = "start"
    /\ exc = ""
    /\ month_arg = <<2024, 2>>
    /\ per_page \in PerPages
    /\ usernames \in UsernameLists
    /\ idx = 0
    /\ uid = None
    /\ lookups = <<>>
    /\ resp_retry_after = None
    /\ monotonic = Uptime
    /\ done_log = <<>>
    /\ username = ""
    /\ user_id = ""
    /\ start_time_iso = <<>>
    /\ end_time_iso = <<>>
    /\ window_start_dt = <<>>
    /\ window_end_dt = <<>>
    /\ max_results = 0
    /\ incremental_save_path = None
    /\ params_token = None
    /\ all_posts = <<>>
    /\ next_token = None
    /\ seen_tokens = {}
    /\ page_idx = 0
    /\ status = 0
    /\ payload = [data |-> <<>>, meta |-> [result_count |-> None, next_token |-> None],
                  includes |-> {}]
    /\ stop = ""
    /\ snapshot = None
    /\ sleeps = <<>>
    /\ result = None
    /\ final_file = None
    /\ received = <<>>
    /\ ok_tokens = <<>>

ServeLookup200 ==
    /\ AtForHead \/ InLookup
    /\ \E body \in LookupBodies(usernames[IdxNow]) : Lookup200(body)
\* The server throttles a lookup with 429, and with 503 when it is asked
\* again, in turn, with or without a retry-after header.
ServeLookupThrottle ==
    \E h \in RetryAfters \cup {None} :
        LookupThrottled(IF Len(LogBase) % 2 = 0 THEN 429 ELSE 503, h)
ServeLookupError == \E st \in ErrorStatuses : LookupOther(st)

\* The timeline of main's mock server: pages that are full or one post short,
\* of posts dated at the start of the window, with the cursor "a" or none and
\* the side table of the page; every snapshot write succeeds.
MainServePage ==
    \E n \in {max_results - 1, max_results} :
    \E tok \in {None, Some("a")} :
        LET data == PageData(Len(all_posts), [i \in 1..n |-> Some(StartIso)])
        IN  Page200(data, [result_count |-> Some(Some(n)), next_token |-> tok],
                    Some(Includes(data)), "ok")

NextMain ==
    \/ MonthBounds
    \/ MakeOutdir
    \/ ServeLookup200
    \/ ServeLookupThrottle
    \/ ServeLookupError
    \/ LookupTransportError
    \/ MainServePage
    \/ ServeThrottle
    \/ ServeError
    \/ TransportError
    \/ DecodeError
    \/ WriteFinal

SpecMain == InitMain /\ [][NextMain]_vars

\* -------------------------------------- specification of backoff_sleep
\* The longest header text tried, in characters.
MaxHeaderLen == 3
\* The characters header texts are made of: digits, signs, the blank and the
\* tab, the decimal point, a letter and the underscore.
HeaderChars == {"0", "5", "-", "+", " ", "\t", ".", "a", "_"}
\* A header of one digit more than int() reads.
HugeHeader == [i \in 1..(MaxStrDigits + 1) |-> "9"]
\* The most seconds time.sleep takes, 9223372036, and six seconds fewer.
EdgeHeader == <<"9", "2", "2", "3", "3", "7", "2", "0", "3", "6">>
NearEdgeHeader == <<"9", "2", "2", "3", "3", "7", "2", "0", "3", "0">>
\* The readings of the monotonic clock a call is made at: ten seconds after
\* the system started, and that of the other runs.
Clocks == { <<10, 0>>, Uptime }
\* The digit 5 between two of the other white-space characters int() strips.
PaddedHeaders ==
    { <<"\n", "5", "\r">>, <<"\f", "5", "\\x0b">>, <<"\\x85", "5", "\\xa0">> }
\* resp.headers.get("retry-after"): absent, every text of up to MaxHeaderLen
\* characters, the padded and the long ones.
HeaderMenu ==
    {None, Some(LongHeader), Some(HugeHeader), Some(EdgeHeader), Some(NearEdgeHeader)}
    \cup {Some(cs) : cs \in PaddedHeaders}
    \cup {Some(cs) : cs \in UNION {[1..n -> HeaderChars] : n \in 0..MaxHeaderLen}}

\* No fetch is set up and main has not started.
IdleFetch ==
    /\ username = ""
    /\ user_id = ""
    /\ start_time_iso = <<>>
    /\ end_time_iso = <<>>
    /\ window_start_dt = <<>>
    /\ window_end_dt = <<>>
    /\ max_results = 0
    /\ incremental_save_path = None
    /\ params_token = None
    /\ all_posts = <<>>
    /\ next_token = None
    /\ seen_tokens = {}
    /\ page_idx = 0
    /\ status = 0
    /\ payload = [data |-> <<>>, meta |-> [result_count |-> None, next_token |-> None],
                  includes |-> {}]
    /\ stop = ""
    /\ snapshot = None
    /\ result = None
    /\ final_file = None
    /\ received = <<>>
    /\ ok_tokens = <<>>
    /\ usernames = <<>>
    /\ idx = 0
    /\ uid = None
    /\ lookups = <<>>
    /\ done_log = <<>>

\* One call backoff_sleep(resp) with default_sec = 60 (lines 22-32).
BackoffCall ==
    /\ pc = "backoff"
    /\ IF SleepRaises(resp_retry_after, monotonic) # ""
       THEN /\ exc' = SleepRaises(resp_retry_after, monotonic)
            /\ pc' = "raised"
            /\ UNCHANGED sleeps
       ELSE /\ sleeps' = Append(sleeps, backoff_sleep(resp_retry_after, DefaultSec))
            /\ pc' = "slept"
            /\ UNCHANGED exc
    /\ UNCHANGED << username, start_time_iso, end_time_iso, fetch_locals_but_sleeps,
                    outer, resp_retry_after, done_log >>

InitBackoff ==
    /\ pc = "backoff"
    /\ exc = ""
    /\ resp_retry_after \in HeaderMenu
    /\ monotonic \in Clocks
    /\ sleeps = <<>>
    /\ month_arg = <<2024, 2>>
    /\ per_page = 100
    /\ IdleFetch

NextBackoff == BackoffCall

SpecBackoff == InitBackoff /\ [][NextBackoff]_vars

\* ----------------------------------- specification of iso_month_bounds
\* The years tried: the first and the last two a datetime holds, leap years
\* (2000, 2024), a common year (2023) and centuries that are not leap years.
Years == {1, 1900, 2000, 2023, 2024, 2100, 9998, 9999}

\* main up to the bounds of the month (lines 251-252), for every month of Years.
InitBounds ==
    /\ pc = "start"
    /\ exc = ""
    /\ month_arg \in Years \X (1..12)
    /\ per_page = 100
    /\ resp_retry_after = None
    /\ monotonic = Uptime
    /\ sleeps = <<>>
    /\ IdleFetch

NextBounds == MonthBounds

SpecBounds == InitBounds /\ [][NextBounds]_vars

\* ------------------------------------------------------------ properties
RECURSIVE Flatten(_)
Flatten(ss) == IF ss = <<>> THEN <<>> ELSE Head(ss) \o Flatten(Tail(ss))

\* The last decoded 200 page of the fetch.
LastPage == received[Len(received)]
\* The cursors returned by the pages before the last one.
EarlierCursors ==
    {received[i].meta.next_token[1] :
        i \in {j \in 1..(Len(received) - 1) : received[j].meta.next_token # None}}
Looping == pc = "loop"

\* With cursors drawn from the K values of Tokens a fetch decodes at most
\* K + 1 pages and has left the loop once it has decoded K + 1; and a page
\* whose cursor was already returned by an earlier page of the fetch is
\* followed by no further request.
CycleBound ==
    /\ page_idx <= Cardinality(Tokens) + 1
    /\ page_idx = Cardinality(Tokens) + 1 => ~Looping
    /\ (received # <<>> /\ LastPage.meta.next_token # None
          /\ LastPage.meta.next_token[1] \in EarlierCursors) => ~Looping

\* A stop condition of a 200 page ended the loop.
StoppedByPage == stop \notin {"", "error"}
\* An accumulated post has a created_at text that is not a valid timestamp.
HoldsBadStamp ==
    \E i \in 1..Len(all_posts) :
        /\ TruthyTs(all_posts[i].created_at)
        /\ ~ValidFields(all_posts[i].created_at[1])

\* C1 (as claimed): against a server that answers 200 with cursors from a set
\* of K values the fetch processes at most K + 1 pages and then returns: no
\* request follows a page whose cursor was seen before, and once a page has
\* stopped the loop the call has returned its list.
C1_CycleBound ==
    /\ CycleBound
    /\ StoppedByPage => result # None

\* What does hold: the bound on the pages and on the requests, and the return
\* whenever every accumulated created_at is missing, empty or a valid
\* timestamp; otherwise the window filter raises ValueError and nothing is
\* returned.
C1_CycleBoundExceptFilter ==
    /\ CycleBound
    /\ StoppedByPage
       => IF HoldsBadStamp
          THEN pc = "raised" /\ exc = "ValueError" /\ result = None
          ELSE result # None

\* A third page, full, with a declared count, that stops only because its
\* cursor repeats an earlier one.
C1_Witness ==
    /\ stop = "repeated"
    /\ page_idx = Cardinality(Tokens) + 1
    /\ LastPage.meta.next_token[1] \in EarlierCursors
    /\ pc = "returned"

\* C2: at every point the accumulated list is the concatenation, in request
\* order, of the items of every 200 page decoded so far, the stopping page
\* included.
C2_Accumulation ==
    all_posts = Flatten([i \in 1..Len(received) |-> received[i].data])

\* Two full pages then a short (empty) third page, all kept in order.
C2_Witness ==
    /\ Len(received) = 3
    /\ Len(received[1].data) = max_results
    /\ Len(received[2].data) = max_results
    /\ Len(received[3].data) < max_results
    /\ Len(all_posts) = 2 * max_results
    /\ ~Looping

\* C3: after a 200 page with fewer items than max_results no further request
\* is issued, whatever its cursor; a short first page leaves exactly 1 page.
C3_ShortPageStops ==
    (received # <<>> /\ Len(LastPage.data) < max_results) => ~Looping

\* A short, non-empty first page with a declared count and a fresh cursor.
C3_Witness ==
    /\ page_idx = 1
    /\ stop = "short"
    /\ LastPage.data # <<>>
    /\ LastPage.meta.result_count = Some(Some(max_results))
    /\ LastPage.meta.next_token = Some("a")
    /\ ~Looping

\* C4: after a 200 page that is empty or declares result_count 0 no further
\* request is issued, and the items of that page stay in the accumulation.
C4_EmptyOrZeroStops ==
    (received # <<>>
       /\ (LastPage.data = <<>> \/ LastPage.meta.result_count = Some(Some(0))))
    => /\ ~Looping
       /\ Len(all_posts) >= Len(LastPage.data)
       /\ SubSeq(all_posts, Len(all_posts) - Len(LastPage.data) + 1, Len(all_posts))
            = LastPage.data

\* A full page of in-window posts with a fresh cursor that declares
\* result_count 0: the fetch stopped and kept its items.
C4_Witness ==
    /\ page_idx = 1
    /\ Len(LastPage.data) = max_results
    /\ \A i \in 1..Len(LastPage.data) : LastPage.data[i].created_at = Some(StartIso)
    /\ LastPage.meta.result_count = Some(Some(0))
    /\ LastPage.meta.next_token = Some("a")
    /\ all_posts = LastPage.data
    /\ pc = "returned"

\* C5: a 429/503 answer leaves the accumulated posts, the cursor, the seen
\* set, the page counter and the snapshot file as they were, whether its
\* backoff returns or raises, and a throttled pass that comes back to the
\* loop has performed exactly one backoff; and the request issued after a
\* throttled one carries the same pagination_token, or the same absence of
\* one.
C5_ThrottleFrame ==
    /\ [][ (pc = "loop" /\ status' \in ThrottleStatuses)
           => /\ all_posts' = all_posts
              /\ next_token' = next_token
              /\ seen_tokens' = seen_tokens
              /\ page_idx' = page_idx
              /\ snapshot' = snapshot ]_vars
    /\ [][ (pc = "loop" /\ pc' = "loop" /\ status' \in ThrottleStatuses)
           => Len(sleeps') = Len(sleeps) + 1 ]_vars
    /\ [][ (pc = "loop" /\ status \in ThrottleStatuses)
           => params_token' = params_token ]_vars

\* A throttled request for the page after a first one, carrying its cursor.
C5_Witness ==
    /\ status \in ThrottleStatuses
    /\ page_idx = 1
    /\ next_token = Some("a")
    /\ params_token = Some("a")
    /\ snapshot # None
    /\ sleeps = <<2>>
    /\ Looping


\* A post without a created_at text: the key is missing or holds "".
HasNoStamp(p) == p.created_at = None \/ p.created_at = Some(<<>>)
\* A post whose created_at text is a valid timestamp.
Parses(p) == ~HasNoStamp(p) /\ ValidFields(p.created_at[1])
\* A post whose created_at text is not a valid timestamp.
Unparseable(p) == ~HasNoStamp(p) /\ ~ValidFields(p.created_at[1])

RECURSIVE FieldsLess(_, _)
\* a < b on valid timestamps read as year, month, day, hour, minute, second.
FieldsLess(a, b) ==
    /\ a # <<>>
    /\ \/ Head(a) < Head(b)
       \/ Head(a) = Head(b) /\ FieldsLess(Tail(a), Tail(b))

\* The fetch ended on a transport or decoding failure.
IoFailed == exc \in {"RequestException", "JSONDecodeError"}
\* The fetch returned a list to main.
FetchReturned == result # None
\* The loop was left by a break: a [STOP] or [ERROR] line was printed.
LeftByBreak == stop # ""

\* C6 (as claimed): after an answer with a status other than 200, 429, 503 the
\* fetch issues no request and no backoff and returns the accumulated posts
\* through the window filter without raising; an error on the first request
\* gives an empty result.
C6_ErrorReturnsAccumulated ==
    stop = "error"
    => /\ FetchReturned
       /\ exc # "ValueError"
       /\ sleeps = <<>>
       /\ \A k \in 1..Len(result[1]) : \E i \in 1..Len(all_posts) : all_posts[i] = result[1][k]
       /\ page_idx = 0 => result = Some(<<>>)

\* C7 (as claimed): a transport or decoding error after at least one page
\* stops the fetch, which returns the accumulated posts, and main writes the
\* final document.
C7_PartialResultsSaved ==
    (IoFailed /\ page_idx >= 1) => FetchReturned

\* C8 (as claimed): the window filter never raises and keeps every accumulated
\* post that has no parseable created_at.
C8_FilterFailsOpen ==
    LeftByBreak
    => /\ exc # "ValueError"
       /\ FetchReturned
       /\ \A i \in 1..Len(all_posts) :
             (HasNoStamp(all_posts[i]) \/ Unparseable(all_posts[i]))
             => \E k \in 1..Len(result[1]) : result[1][k] = all_posts[i]

\* The posts the window keeps, read off the timestamps' fields.
ExpectedInWindow ==
    SelectSeq(all_posts,
              LAMBDA p : \/ HasNoStamp(p)
                         \/ /\ ~FieldsLess(p.created_at[1], start_time_iso)
                            /\ FieldsLess(p.created_at[1], end_time_iso))

\* C9: when every accumulated post has a valid timestamp or none, a fetch that
\* left the loop by a break returns exactly the subsequence, in order, of the
\* posts with start <= t < end and of the posts without a timestamp.
C9_WindowSubsequence ==
    (LeftByBreak
       /\ \A i \in 1..Len(all_posts) : HasNoStamp(all_posts[i]) \/ Parses(all_posts[i]))
    => /\ FetchReturned
       /\ result = Some(ExpectedInWindow)

\* Three pages whose posts lie at the end of the window, at its start, without
\* a stamp or before it: only those at the start and without a stamp return.
C9_Witness ==
    /\ pc = "returned"
    /\ Len(all_posts) = 3
    /\ \E i \in 1..3 : all_posts[i].created_at = Some(EndIso)
    /\ \E i \in 1..3 : all_posts[i].created_at = Some(StartIso)
    /\ \E i \in 1..3 : all_posts[i].created_at = Some(<<2024, 1, 31, 23, 59, 59>>)
    /\ Len(result[1]) = 1
    /\ result[1][1].created_at = Some(StartIso)

\* The [STOP] lines of the four stop conditions.
PageStops == {"empty", "short", "past_window", "no_token", "repeated"}

\* The last page is full and declares a non-zero result_count.
LastFullCounted ==
    /\ received # <<>>
    /\ Len(LastPage.data) = max_results
    /\ LastPage.meta.result_count \notin {None, Some(None), Some(Some(0))}
\* Some item of the last page parses to a time before the window start.
LastHasEarlier ==
    \E i \in 1..Len(LastPage.data) :
        /\ Parses(LastPage.data[i])
        /\ FieldsLess(LastPage.data[i].created_at[1], start_time_iso)
LastHasUnparseable == \E i \in 1..Len(LastPage.data) : Unparseable(LastPage.data[i])
LastCursorFresh ==
    /\ LastPage.meta.next_token # None
    /\ LastPage.meta.next_token[1] \notin EarlierCursors

\* C10 (as claimed): a full page with a non-zero result_count whose earliest
\* parseable created_at is before the window start is followed by no further
\* request, whatever the other items hold.
C10_PastWindowStops ==
    (LastFullCounted /\ LastHasEarlier) => ~Looping

\* C10 (amended): such a page stops the fetch when every non-empty created_at
\* of the page parses; when one of them does not parse the condition is
\* skipped, and with a fresh cursor the loop goes on with that cursor.
C10_PastWindowAmended ==
    /\ (LastFullCounted /\ LastHasEarlier /\ ~LastHasUnparseable)
       => (~Looping /\ stop = "past_window")
    /\ (LastFullCounted /\ LastHasUnparseable /\ LastCursorFresh)
       => (stop \notin PageStops /\ next_token = LastPage.meta.next_token)

\* A full page holding a post before the window and one without created_at,
\* with a fresh cursor: the fetch stopped as past the window.
C10_Witness ==
    /\ page_idx = 1
    /\ max_results = 2
    /\ Len(LastPage.data) = 2
    /\ LastPage.data[1].created_at = None
    /\ LastPage.data[2].created_at = Some(<<2024, 1, 31, 23, 59, 59>>)
    /\ LastPage.meta.next_token = Some("a")
    /\ stop = "past_window"
    /\ pc = "returned"

\* The snapshot file holds a whole document: some write of it succeeded and no
\* later one tore it.
SnapshotWhole == snapshot # None /\ snapshot[1] # TornFile
\* The items of the first n decoded pages, in request order.
PostsUpTo(n) == Flatten([i \in 1..n |-> received[i].data])
IsPrefix(a, b) == Len(a) <= Len(b) /\ SubSeq(b, 1, Len(a)) = a

\* What the snapshot file holds when it is whole: the fetch state as it was
\* right after some page n, and the current state when n is the last page.
C11_SnapshotState ==
    SnapshotWhole =>
        LET doc == snapshot[1]
            n   == doc.page
        IN  /\ Truthy(incremental_save_path)
            /\ n \in 1..page_idx
            /\ doc.posts_so_far = PostsUpTo(n)
            /\ doc.count_so_far = Len(doc.posts_so_far)
            /\ doc.meta = received[n].meta
            /\ n = page_idx
               => (doc.posts_so_far = all_posts /\ doc.includes = payload.includes)

\* A pass that decoded a page with a save path either wrote the whole new
\* document (page = the new page count), tore the file, or left it alone.
C11_PageWrite ==
    (page_idx' = page_idx + 1 /\ Truthy(incremental_save_path))
    => \/ snapshot' = snapshot
       \/ snapshot' = Some(TornFile)
       \/ /\ snapshot'[1].page = page_idx'
          /\ snapshot'[1].posts_so_far = all_posts'
          /\ snapshot'[1].count_so_far = Len(all_posts')
          /\ snapshot'[1].meta = payload'.meta
          /\ snapshot'[1].includes = payload'.includes

\* C11: with a save path, after every 200 page whose write succeeds (stopping
\* pages included) the snapshot holds the full unfiltered accumulated list, its
\* length, the number of 200 pages so far and the meta and includes of the
\* latest page only; each write replaces the file, and the posts_so_far of a
\* later snapshot extends the one before as a prefix.
C11_Snapshot ==
    /\ []C11_SnapshotState
    /\ [][C11_PageWrite]_vars
    /\ [][ (SnapshotWhole /\ snapshot' # None /\ snapshot'[1] # TornFile)
           => IsPrefix(snapshot[1].posts_so_far, snapshot'[1].posts_so_far) ]_vars

\* Two pages, both written: the second, a short stopping page, is in the file
\* with all three posts, one of them outside the window and filtered from the
\* returned list.
C11_Witness ==
    /\ pc = "returned"
    /\ stop = "short"
    /\ page_idx = 2
    /\ SnapshotWhole
    /\ snapshot[1].page = 2
    /\ Len(snapshot[1].posts_so_far) = 3
    /\ snapshot[1].includes = {3}
    /\ Len(result[1]) < 3

\* The stop decision the responses alone determine for the last decoded page.
LastPageDecision ==
    StopReason(LastPage.data, LastPage.meta, max_results, window_start_dt,
               EarlierCursors)

\* C12: whatever the snapshot writes did, the requests answered 200, the stop
\* decision and the returned posts are those the server's responses alone
\* determine, and no write failure leaves the fetch as an exception.
C12_WriteFailureInert ==
    /\ exc = "OSError" => FetchReturned
    /\ Len(ok_tokens) = Len(received) + (IF exc = "JSONDecodeError" THEN 1 ELSE 0)
    /\ ok_tokens = [i \in 1..Len(ok_tokens) |->
                      IF i = 1 THEN None
                      ELSE RequestToken(received[i - 1].meta.next_token)]
    /\ received # <<>>
       => IF LastPageDecision = ""
          THEN stop \in {"", "error"} /\ next_token = LastPage.meta.next_token
          ELSE stop = LastPageDecision /\ ~Looping
    /\ result # None
       => result = Some(FilterPosts(PostsUpTo(Len(received)),
                                    window_start_dt, window_end_dt))

\* Three pages of which only the first was written (the later writes failed
\* at open): the fetch went on to the third page and returned its posts.
C12_Witness ==
    /\ pc = "returned"
    /\ page_idx = 3
    /\ SnapshotWhole
    /\ snapshot[1].page = 1
    /\ stop = "repeated"
    /\ Len(result[1]) = 3

\* C13 (as claimed): when the server does not throttle forever and draws its
\* cursors from finitely many values, every call of the fetch eventually
\* returns.
C13_EventuallyReturns == <>FetchReturned

\* What does hold: every call eventually leaves the loop, by a return or by
\* an exception, and every pass that stays in the loop is a throttled retry
\* or has moved to a cursor no earlier page returned.
C13_LeavesLoop ==
    /\ <>(~Looping)
    /\ [][ (Looping /\ Looping')
           => \/ status' \in ThrottleStatuses
              \/ /\ page_idx' = page_idx + 1
                 /\ next_token' # None
                 /\ next_token'[1] \notin seen_tokens ]_vars

\* ------------------------------------------------- properties of main
\* The last GET of the current fetch_user_id call.
LastLookup == lookups[Len(lookups)]
\* fetch_user_id got an answer that is not a throttle: the call is over.
LookupAnswered ==
    lookups # <<>> /\ LastLookup.status \notin (ThrottleStatuses \cup {0})
\* A fetch is set up for the current username (resolved ids are not empty).
FetchRunning == user_id # ""
\* The exception in exc left fetch_user_id.
LookupRaised == pc = "raised" /\ idx >= 1 /\ ~FetchRunning
\* The decoded 200 body carries a nested id.
CarriesId(body) ==
    body.json /\ body.data # None /\ ~body.data[1].null /\ body.data[1].id # None
\* The body is JSON and carries no nested id.
CarriesNoId(body) == body.json /\ ~CarriesId(body)
\* k throttled lookups of the current handle, each followed by one backoff,
\* then the answered one, followed by none.
ThrottledThenAnswered ==
    /\ \A i \in 1..Len(lookups) : lookups[i].handle = username
    /\ \A i \in 1..(Len(lookups) - 1) :
          lookups[i].status \in ThrottleStatuses /\ lookups[i].slept # None
    /\ LastLookup.slept = None
    /\ pc # "lookup"

\* C14 (as claimed): after k answers 429/503 and one answer r of another
\* status fetch_user_id has issued k+1 lookups of the same handle and k
\* backoffs, and has returned the nested id when r is 200 and carries one, None
\* when r is 200 without an id, and None without retry or exception for any
\* other status.
C14_ResolutionUnderThrottling ==
    LookupAnswered
    => /\ ThrottledThenAnswered
       /\ LastLookup.status = 200 /\ CarriesId(LastLookup.body[1])
          => ~LookupRaised /\ uid = LastLookup.body[1].data[1].id
       /\ LastLookup.status = 200 /\ CarriesNoId(LastLookup.body[1])
          => ~LookupRaised /\ uid = None
       /\ LastLookup.status # 200 => ~LookupRaised /\ uid = None

\* What does hold: the same, except that a 200 body whose "data" is null makes
\* fetch_user_id raise AttributeError.
C14_ResolutionExceptNull ==
    LookupAnswered
    => /\ ThrottledThenAnswered
       /\ LastLookup.status = 200 /\ CarriesId(LastLookup.body[1])
          => ~LookupRaised /\ uid = LastLookup.body[1].data[1].id
       /\ LastLookup.status = 200 /\ CarriesNoId(LastLookup.body[1])
          => IF LastLookup.body[1].data = Some(JsonNull)
             THEN LookupRaised /\ exc = "AttributeError"
             ELSE ~LookupRaised /\ uid = None
       /\ LastLookup.status # 200 => ~LookupRaised /\ uid = None

\* The cursors returned by the pages decoded so far.
ReturnedCursors ==
    {received[i].meta.next_token[1] :
        i \in {j \in 1..Len(received) : received[j].meta.next_token # None}}

\* Where main stands with its usernames.
C15_MainState ==
    \* a fetch is under way only for the current username, resolved to an id
    /\ pc \in {"loop", "returned"}
       => Truthy(uid) /\ user_id = uid[1] /\ username = usernames[idx]
    \* a skipped username has no fetch, no timeline request and no file
    /\ pc = "skipped"
       => /\ ~Truthy(uid)
          /\ ~FetchRunning
          /\ status = 0 /\ params_token = None /\ page_idx = 0
          /\ snapshot = None /\ final_file = None
    \* the usernames main is through with, in order: a file exactly for those
    \* that resolved
    /\ Len(done_log) <= idx
    /\ \A i \in 1..Len(done_log) :
          /\ done_log[i].username = usernames[i]
          /\ done_log[i].saved # None <=> Truthy(done_log[i].uid)
    /\ pc \in {"skipped", "saved"} => Len(done_log) = idx
    \* after a skip the next username, if any, is looked up
    /\ (pc = "skipped" /\ idx < Len(usernames)) => ENABLED ServeLookup200
    \* what a fetch holds comes from its own pages
    /\ FetchRunning
       => /\ Len(all_posts) <= page_idx * max_results
          /\ seen_tokens \subseteq ReturnedCursors

\* C15: a username that resolves to no id causes no timeline request and no
\* output file, and the usernames after it are still looked up and fetched;
\* no lookup starts while a fetch is under way, and every fetch starts from an
\* empty accumulation, no cursor, an empty seen-set and page counter 0.
C15_UsernameLoop ==
    /\ []C15_MainState
    /\ [][ (pc # "loop" /\ pc' = "loop")
           => /\ all_posts' = <<>> /\ next_token' = None /\ seen_tokens' = {}
              /\ page_idx' = 0 /\ params_token' = None /\ received' = <<>> ]_vars
    /\ [][ lookups' # lookups => pc \in {"main", "skipped", "saved", "lookup"} ]_vars
    /\ [][ (pc = "loop" \/ pc = "returned")
           => (idx' = idx /\ username' = username /\ user_id' = user_id) ]_vars

\* alice does not resolve and is skipped; bob, after her, is fetched over two
\* pages and saved.
C15_Witness ==
    /\ usernames = <<"alice", "bob">>
    /\ pc = "saved"
    /\ Len(done_log) = 2
    /\ done_log[1].saved = None
    /\ done_log[2].uid = Some("1002")
    /\ page_idx = 2
    /\ done_log[2].saved = Some(Len(all_posts))
    /\ final_file[1].username = "bob"

\* A second fetch about to start from the state the first one left: alice was
\* fetched over two pages and saved, and bob's fetch is set up, fresh.
C15_FreshWitness ==
    /\ usernames = <<"alice", "bob">>
    /\ pc = "loop"
    /\ idx = 2
    /\ Len(done_log) = 1
    /\ done_log[1].saved # None
    /\ done_log[1].saved[1] > max_results
    /\ all_posts = <<>>
    /\ seen_tokens = {}

\* ----------------------------------------- properties of backoff_sleep
BackoffDone == pc \in {"slept", "raised"}
HeaderAbsentOrEmpty == resp_retry_after = None \/ resp_retry_after = Some(<<>>)
AllDigits(cs) == cs # <<>> /\ \A i \in 1..Len(cs) : IsDigit(cs[i])
\* The header without its white space, and whether all its white space is at
\* its ends.
HeaderCore == SelectSeq(resp_retry_after[1], LAMBDA c : c \notin WhiteSpace)
HeaderPadded ==
    \A i \in 1..Len(resp_retry_after[1]) :
        resp_retry_after[1][i] \in WhiteSpace
        => \/ \A k \in 1..i : resp_retry_after[1][k] \in WhiteSpace
           \/ \A k \in i..Len(resp_retry_after[1]) : resp_retry_after[1][k] \in WhiteSpace
\* The header is a plain non-negative integer: digits only, no more of them
\* than int() reads, with or without white space around them.
HeaderIsNumber ==
    /\ ~HeaderAbsentOrEmpty
    /\ HeaderPadded
    /\ AllDigits(HeaderCore)
    /\ Len(HeaderCore) <= MaxStrDigits
\* The header has more digits than int() reads.
HeaderTooLong == ~HeaderAbsentOrEmpty /\ Len(HeaderCore) > MaxStrDigits
\* The header holds a letter or a decimal point.
HeaderNotInteger ==
    /\ ~HeaderAbsentOrEmpty
    /\ \E i \in 1..Len(resp_retry_after[1]) : resp_retry_after[1][i] \in {"a", "."}
\* The header is a minus sign and digits, not all of them zero.
HeaderIsNegative ==
    /\ ~HeaderAbsentOrEmpty
    /\ Head(resp_retry_after[1]) = "-"
    /\ AllDigits(Tail(resp_retry_after[1]))
    /\ \E i \in 2..Len(resp_retry_after[1]) : resp_retry_after[1][i] # "0"
\* The call slept once, for the seconds the header asks or for the default.
SleptAsAsked ==
    /\ exc = ""
    /\ Len(sleeps) = 1
    /\ sleeps[1] >= 0
    /\ HeaderIsNumber => sleeps[1] = DigitsValue(HeaderCore)
    /\ HeaderAbsentOrEmpty => sleeps[1] = DefaultSec
    /\ HeaderTooLong => sleeps[1] = DefaultSec
    /\ HeaderNotInteger => sleeps[1] = DefaultSec
    /\ HeaderIsNegative => sleeps[1] = DefaultSec

\* C16 (as claimed): backoff_sleep sleeps exactly once, for n seconds when the
\* header is a non-negative integer n (0 included) and for 60 seconds when the
\* header is absent, empty, not numeric, fractional or negative, and never
\* raises.
C16_BackoffSleeps == BackoffDone => SleptAsAsked

\* What does hold: the same for every header but a number time.sleep does not
\* take: on one of more digits than 9223372036 has the call raises
\* OverflowError, and on the two just below that limit it raises OSError, in
\* both cases without sleeping.
C16_BackoffExceptOverflow ==
    BackoffDone
    => IF HeaderIsNumber /\ Len(HeaderCore) > Len(SleepLimitDigits)
       THEN exc = "OverflowError" /\ sleeps = <<>>
       ELSE IF resp_retry_after \in {Some(EdgeHeader), Some(NearEdgeHeader)}
       THEN exc = "OSError" /\ sleeps = <<>>
       ELSE SleptAsAsked

\* -------------------------------------- properties of iso_month_bounds
\* Day 1 of the month of month_arg, and of the month after it, at midnight.
FirstOfMonth == << month_arg[1], month_arg[2], 1, 0, 0, 0 >>
FirstOfNextMonth ==
    IF month_arg[2] = 12 THEN << month_arg[1] + 1, 1, 1, 0, 0, 0 >>
    ELSE << month_arg[1], month_arg[2] + 1, 1, 0, 0, 0 >>
\* The days from start to end, and the days the calendar gives the month.
DaysBetweenBounds == FromIso(end_time_iso)[1][1] - FromIso(start_time_iso)[1][1]
CalendarLength ==
    IF month_arg[2] = 2
    THEN (IF month_arg[1] \in {2000, 2024} THEN 29 ELSE 28)
    ELSE IF month_arg[2] \in {4, 6, 9, 11} THEN 30 ELSE 31
\* The bounds were returned, and are those of the month.
BoundsAsClaimed ==
    /\ pc = "makedirs"
    /\ exc = ""
    /\ start_time_iso = FirstOfMonth
    /\ end_time_iso = FirstOfNextMonth
    /\ FieldsLess(start_time_iso, end_time_iso)
    /\ DaysBetweenBounds = CalendarLength

\* C17 (as claimed): for every year and month iso_month_bounds returns
\* midnight of day 1 of the month and midnight of day 1 of the following
\* month (1 January of year+1 for December), with start < end.
C17_MonthBounds == pc # "start" => BoundsAsClaimed

\* C17 (amended): so it does for every month from 0001-01 to 9999-11, whatever
\* its length; for December 9999 the end is past the last datetime and the
\* call raises OverflowError.
C17_MonthBoundsAmended ==
    pc # "start"
    => IF month_arg = <<9999, 12>>
       THEN pc = "raised" /\ exc = "OverflowError"
       ELSE BoundsAsClaimed

\* February of a leap year: 29 days, up to 1 March.
C17_Witness ==
    /\ month_arg = <<2024, 2>>
    /\ pc = "makedirs"
    /\ start_time_iso = <<2024, 2, 1, 0, 0, 0>>
    /\ end_time_iso = <<2024, 3, 1, 0, 0, 0>>
    /\ usernames = <<>>

\* ------------------------------------------- properties of the page size
\* args.per_page brought into 1..100, and into 10..100.
ClampOneToHundred ==
    IF per_page < 1 THEN 1 ELSE IF per_page > 100 THEN 100 ELSE per_page
ClampTenToHundred ==
    IF per_page < 10 THEN 10 ELSE IF per_page > 100 THEN 100 ELSE per_page

\* C18 (as claimed): the max_results of a fetch's requests, which is the
\* threshold of the short-page stop, is the per-page value clamped into 1..100.
C18_PageSize ==
    FetchRunning
    => /\ max_results = ClampOneToHundred
       /\ received # <<>>
          => (stop = "short" <=> Len(LastPage.data) < ClampOneToHundred)

\* C18 (amended): it is the per-page value clamped into 10..100: a value in
\* 10..100 is used unchanged, a smaller one becomes 10, a larger one 100; and
\* it does not change during the fetch.
C18_PageSizeAmended ==
    /\ [](FetchRunning
          => /\ max_results = ClampTenToHundred
             /\ received # <<>>
                => (stop = "short" <=> Len(LastPage.data) < ClampTenToHundred))
    /\ [][ pc = "loop" => max_results' = max_results ]_vars

\* --per-page 5: the requests ask for 10, a first page of 10 is full and a
\* second page of 9 stops the fetch as short.
C18_Witness ==
    /\ per_page = 5
    /\ max_results = 10
    /\ page_idx = 2
    /\ Len(received[1].data) = 10
    /\ Len(LastPage.data) = 9
    /\ stop = "short"
    /\ pc = "returned"

\* ------------------------------------- properties of the pagination state
\* No two requests answered 200 carry the same pagination state; the first
\* carries no token and each later one the cursor of the 200 page before it.
DistinctPaginationStates ==
    /\ \A i \in 1..Len(ok_tokens) : \A j \in 1..Len(ok_tokens) :
          i # j => ok_tokens[i] # ok_tokens[j]
    /\ ok_tokens # <<>> => ok_tokens[1] = None
    /\ \A i \in 2..Len(ok_tokens) : ok_tokens[i] = received[i - 1].meta.next_token

\* C19 (as claimed): that holds within every fetch, for every cursor string
\* the server may return, the empty string included.
C19_DistinctPaginationStates == DistinctPaginationStates

\* What does hold: it holds as long as no page returned the empty string as
\* its cursor; after such a page the request carries no token, like the first.
C19_ExceptEmptyCursor ==
    /\ "" \notin ReturnedCursors => DistinctPaginationStates
    /\ (Len(ok_tokens) >= 2 /\ received[1].meta.next_token = Some(""))
       => ok_tokens[2] = None

\* ------------------------------------- properties of a missing result_count
\* The last page has no result_count: the key, or the whole meta, is missing.
LastCountMissing == received # <<>> /\ LastPage.meta.result_count = None
\* After such a page the loop is left and the items of the page are kept.
MissingCountStops ==
    LastCountMissing
    => /\ ~Looping
       /\ stop = "empty"
       /\ Len(all_posts) >= Len(LastPage.data)
       /\ SubSeq(all_posts, Len(all_posts) - Len(LastPage.data) + 1,
                 Len(all_posts)) = LastPage.data

\* C20 (as claimed): a 200 page without result_count (or without meta) counts
\* as declaring 0: its items are kept and no further request is issued,
\* whatever its size, timestamps and cursor; the loop goes on past a page only
\* if the page declares a non-zero result_count.
C20_MissingCountStops ==
    /\ MissingCountStops
    /\ (Looping /\ received # <<>>)
       => LastPage.meta.result_count \notin {None, Some(None), Some(Some(0))}

\* C20 (amended): a page without result_count counts as declaring 0 and stops
\* the fetch, its items kept; the loop goes on past a page only if the page
\* has a result_count that is not 0, which a JSON null is: a full page of
\* posts inside the window with a fresh cursor and a null result_count is
\* followed by the request for the next page.
C20_MissingCountAmended ==
    /\ MissingCountStops
    /\ (Looping /\ received # <<>>)
       => LastPage.meta.result_count \notin {None, Some(Some(0))}
    /\ ( /\ received # <<>>
         /\ stop \notin {"error"}
         /\ exc = ""
         /\ LastPage.meta.result_count = Some(None)
         /\ Len(LastPage.data) = max_results
         /\ LastPage.data # <<>>
         /\ \A i \in 1..Len(LastPage.data) : LastPage.data[i].created_at = Some(StartIso)
         /\ LastCursorFresh )
       => (Looping /\ next_token = LastPage.meta.next_token)

\* A full first page of posts inside the window with the fresh cursor "a" and
\* no result_count: the fetch stopped and returned its two posts.
C20_Witness ==
    /\ page_idx = 1
    /\ max_results = 2
    /\ Len(LastPage.data) = 2
    /\ \A i \in 1..Len(LastPage.data) : LastPage.data[i].created_at = Some(StartIso)
    /\ LastPage.meta.result_count = None
    /\ LastPage.meta.next_token = Some("a")
    /\ pc = "returned"
    /\ result = Some(LastPage.data)

\* The same page with a null result_count: the fetch goes on with the cursor.
C20_NullCountWitness ==
    /\ page_idx = 1
    /\ max_results = 2
    /\ Len(LastPage.data) = 2
    /\ LastPage.meta.result_count = Some(None)
    /\ LastPage.meta.next_token = Some("a")
    /\ Looping
    /\ next_token = Some("a")


====
